---- MODULE Spec2Model ----
(***************************************************************************)
(* Mini Resume Collector (src/main.py): the in-memory candidate collection *)
(* CANDIDATES_DB, the attachment files under UPLOAD_DIRECTORY, and the     *)
(* four request handlers create_candidate, list_candidates, get_candidate  *)
(* and delete_candidate.                                                    *)
(*                                                                         *)
(* Text (str) values that the code inspects are sequences of one-character *)
(* strings, so that split, strip, lower, "in" and splitext are computed as *)
(* Python computes them.  years_of_experience is counted in tenths of a    *)
(* year (2.9 is 29), which keeps the order and the equality of the floats  *)
(* used.  Optional query parameters are <<>> (None) or <<v>> (supplied).   *)
(***************************************************************************)
EXTENDS Integers, Sequences, FiniteSets, TLC

VARIABLES
    CANDIDATES_DB,  \* the list of candidate dicts, main.py line 14
    files,          \* the set of paths that exist under UPLOAD_DIRECTORY
    issued,         \* ids uuid.uuid4() has produced so far
    created,        \* history: id |-> the record a successful create returned
    deleted,        \* history: ids a successful delete was answered for
    last,           \* the request served last and its response
    before,         \* history: the collection and the files when it arrived
    inflight        \* the requests being served: where each one stands

vars == <<CANDIDATES_DB, files, issued, created, deleted, last, before, inflight>>

\* Number of values uuid.uuid4() hands out in one run of the model.
MaxIds == 3

\* Number of values uuid.uuid4() hands out in the runs that interleave requests.
MaxConcurrentIds == 2

\* Largest collection, and number of different uuid4 values, of the runs in
\* which uuid.uuid4() may repeat a value.
MaxCollisionRecords == 2

\* Longest raw skill_set text of the skill normalisation runs.
MaxRawLen == 4

UPLOAD_DIRECTORY == "uploads"

None == <<>>
Some(v) == <<v>>

----------------------------------------------------------------------------
(* Python str operations, on sequences of characters *)

Whitespace == {" ", "\t"}

\* str.lower() of one character, for the letters the inputs use
LowerChar(c) ==
    CASE c = "S" -> "s" [] c = "Q" -> "q" [] c = "L" -> "l"
      [] c = "G" -> "g" [] c = "O" -> "o" [] c = "P" -> "p"
      [] OTHER -> c

\* str.lower()
Lower(s) == [i \in 1..Len(s) |-> LowerChar(s[i])]

\* a in b, for two str values: a occurs in b as a contiguous substring
Contains(b, a) ==
    \E i \in 0..(Len(b) - Len(a)) : SubSeq(b, i + 1, i + Len(a)) = a

\* str.strip(): leading and trailing whitespace removed
RECURSIVE LStrip(_)
LStrip(s) ==
    IF s # <<>> /\ Head(s) \in Whitespace THEN LStrip(Tail(s)) ELSE s

RECURSIVE RStrip(_)
RStrip(s) ==
    IF s # <<>> /\ s[Len(s)] \in Whitespace
    THEN RStrip(SubSeq(s, 1, Len(s) - 1))
    ELSE s

\* lstrip() in place of strip()
StripLeftOnly(s) == LStrip(s)

Strip(s) == RStrip(LStrip(s))

\* index of the first c in s, 0 when there is none
RECURSIVE FindFrom(_, _, _)
FindFrom(s, c, i) ==
    IF i > Len(s) THEN 0
    ELSE IF s[i] = c THEN i
    ELSE FindFrom(s, c, i + 1)

\* str.split(","): the pieces between commas, empty pieces included
RECURSIVE Split(_)
Split(s) ==
    LET k == FindFrom(s, ",", 1)
    IN  IF k = 0 THEN <<s>>
        ELSE <<SubSeq(s, 1, k - 1)>> \o Split(SubSeq(s, k + 1, Len(s)))

\* index of the last c in s, 0 when there is none (str.rfind, 1-based)
RECURSIVE RFind(_, _, _)
RFind(s, c, i) ==
    IF i = 0 THEN 0
    ELSE IF s[i] = c THEN i
    ELSE RFind(s, c, i - 1)

\* os.path.splitext(p)[1]: the text from the last dot on, unless that dot
\* lies before the last separator or only dots precede it in the base name
SplitExt(p) ==
    LET sepIndex == RFind(p, "/", Len(p))
        dotIndex == RFind(p, ".", Len(p))
    IN  IF dotIndex > sepIndex
           /\ \E k \in (sepIndex + 1)..(dotIndex - 1) : p[k] # "."
        THEN SubSeq(p, dotIndex, Len(p))
        ELSE <<>>

----------------------------------------------------------------------------
(* Inputs *)

\* str(uuid.uuid4()) values: non-empty and pairwise different texts
UuidStr(n) == <<"u", n>>
IDS == {UuidStr(n) : n \in 1..MaxIds}

\* ids a client may put in the URL: any text, a uuid of this run or not
RequestIds == IDS \cup {<<"x">>}

allowed_content_types ==
    { "application/pdf",
      "application/msword",
      "application/vnd.openxmlformats-officedocument.wordprocessingml.document" }

ContentTypes == allowed_content_types \cup {"image/png"}

\* the form fields of a create request (the free-text fields other than
\* full_name are carried exactly like full_name and are left out)
Forms ==
    { [ full_name           |-> "Ann",
        graduation_year     |-> 2020,
        years_of_experience |-> 30,
        skill_set           |-> <<" ", "S", "Q", "L", ",", " ", "G", "o", " ", ",">>,
        filename            |-> <<"c", "v", ".", "p", "d", "f">> ],
      [ full_name           |-> "Bob",
        graduation_year     |-> 2020,
        years_of_experience |-> 29,
        skill_set           |-> <<"P", "y">>,
        filename            |-> <<"c", "v">> ],
      [ full_name           |-> "Cyd",
        graduation_year     |-> 0,
        years_of_experience |-> (0 - 10),
        skill_set           |-> <<" ", ",">>,
        filename            |-> <<".", "c", "v">> ] }

\* what open(file_path, "wb") followed by shutil.copyfileobj can do
WriteOutcomes == {"written", "open_fails", "copy_fails"}

\* what os.remove can do with an existing path
RemoveOutcomes == {"removed", "oserror"}

SkillFilters == {None, Some(<<>>), Some(<<"s", "q", "l">>), Some(<<"O">>)}
ExperienceFilters == {None, Some(0), Some(30)}
YearFilters == {None, Some(0), Some(2020)}

----------------------------------------------------------------------------
(* Helpers of the handlers *)

\* An id derived from the size of the collection, as len(CANDIDATES_DB) + 1
IdFromLength == {UuidStr(Len(CANDIDATES_DB) + 1)} \cap IDS

\* uuid.uuid4(): a value never handed out before.  The handlers only compare
\* ids for equality, so the k-th value handed out is written UuidStr(k).
Uuid4 == {UuidStr(Cardinality(issued) + 1)} \cap IDS

\* A lookup that compares only the first character of the ids
find_candidate_by_prefix(candidate_id) ==
    LET hits == {i \in 1..Len(CANDIDATES_DB) :
                    Head(CANDIDATES_DB[i].id) = Head(candidate_id)}
    IN  IF hits = {} THEN None
        ELSE Some(CANDIDATES_DB[CHOOSE i \in hits : \A j \in hits : i <= j])

\* find_candidate_by_id: the first record with that id, None when there is none
find_candidate_by_id(candidate_id) ==
    LET hits == {i \in 1..Len(CANDIDATES_DB) : CANDIDATES_DB[i].id = candidate_id}
    IN  IF hits = {} THEN None
        ELSE Some(CANDIDATES_DB[CHOOSE i \in hits : \A j \in hits : i <= j])

\* list.remove(x): the list without its first element equal to x
ListRemove(list, x) ==
    LET hits == {i \in 1..Len(list) : list[i] = x}
        k    == CHOOSE i \in hits : \A j \in hits : i <= j
    IN  SubSeq(list, 1, k - 1) \o SubSeq(list, k + 1, Len(list))

\* skills_list = [s.strip() for s in skill_set.split(",") if s.strip()]
RECURSIVE StripNonEmpty(_)
StripNonEmpty(pieces) ==
    IF pieces = <<>> THEN <<>>
    ELSE IF Strip(Head(pieces)) # <<>>
         THEN <<Strip(Head(pieces))>> \o StripNonEmpty(Tail(pieces))
         ELSE StripNonEmpty(Tail(pieces))

skills_list(skill_set) == StripNonEmpty(Split(skill_set))

\* file_extension: splitext of the upload's filename, ".bin" when empty
file_extension(filename) ==
    IF SplitExt(filename) = <<>> THEN <<".", "b", "i", "n">> ELSE SplitExt(filename)

\* The upload kept under the name the client gave it
SavedAsOriginalName(candidate_id, filename) == filename

\* saved_filename = f"{candidate_id}{file_extension}"
saved_filename(candidate_id, filename) == candidate_id \o file_extension(filename)

\* file_path = os.path.join(UPLOAD_DIRECTORY, saved_filename)
file_path(candidate_id, filename) ==
    <<UPLOAD_DIRECTORY, "/">> \o saved_filename(candidate_id, filename)

\* candidate_data, lines 90-101
candidate_data(candidate_id, form) ==
    [ id                  |-> candidate_id,
      full_name           |-> form.full_name,
      graduation_year     |-> form.graduation_year,
      years_of_experience |-> form.years_of_experience,
      skill_set           |-> skills_list(form.skill_set),
      resume_file_path    |-> file_path(candidate_id, form.filename) ]

----------------------------------------------------------------------------
(* The handlers *)

\* the threads that serve requests: the event loop runs the async handler
\* create_candidate, the workers of the thread pool run the def handlers
Workers == {"w1", "w2"}
Threads == Workers \cup {"loop"}

\* a thread that serves no request
Idle == [pc |-> "idle"]

Init ==
    /\ inflight = [t \in Threads |-> Idle]
    /\ CANDIDATES_DB = <<>>
    /\ files = {}
    /\ issued = {}
    /\ created = <<>>
    /\ deleted = {}
    /\ last = [op |-> "none", status |-> 0, args |-> <<>>, result |-> <<>>]
    /\ before = [CANDIDATES_DB |-> <<>>, files |-> {}, created |-> <<>>]

\* the state a request is served in, kept for the properties
Arrival == [CANDIDATES_DB |-> CANDIDATES_DB, files |-> files, created |-> created]

\* A deny-list in place of the allow-list
ContentTypeNotDenied(content_type) == content_type # "text/plain"

\* The content type is accepted (line 65)
ContentTypeAllowed(content_type) == content_type \in allowed_content_types

\* The append moved in front of the try block
InsertBeforeWrite(db, record, outcome) == Append(db, record)

\* The except clause guarding open() only, a failing copy passing unnoticed
InsertUnlessOpenFails(db, record, outcome) ==
    IF outcome # "open_fails" THEN Append(db, record) ELSE db

\* CANDIDATES_DB.insert(0, candidate_data) in place of append
InsertAtFront(db, record, outcome) ==
    IF outcome = "written" THEN <<record>> \o db ELSE db

\* The record reaches CANDIDATES_DB only when the write went through (81-85, 103)
InsertAfterWrite(db, record, outcome) ==
    IF outcome = "written" THEN Append(db, record) ELSE db

\* POST /candidates/, uuid4 being the values uuid.uuid4() may return
create_with(form, content_type, outcome, uuid4) ==
    /\ before' = Arrival /\ UNCHANGED inflight
    /\ IF ~ContentTypeAllowed(content_type)
       THEN /\ last' = [op |-> "create", status |-> 400,
                        args |-> [content_type |-> content_type,
                                 write |-> "not_attempted"],
                        result |-> <<>>]
            /\ UNCHANGED <<CANDIDATES_DB, files, issued, created, deleted>>
       ELSE \E candidate_id \in uuid4 :
              LET path   == file_path(candidate_id, form.filename)
                  record == candidate_data(candidate_id, form)
              IN  /\ issued' = issued \cup {candidate_id}
                  \* open(..., "wb") creates the file; a failure while copying
                  \* leaves it there
                  /\ files' = IF outcome = "open_fails" THEN files
                              ELSE files \cup {path}
                  /\ CANDIDATES_DB' = InsertAfterWrite(CANDIDATES_DB, record, outcome)
                  /\ created' = IF outcome = "written"
                                THEN (candidate_id :> record) @@ created
                                ELSE created
                  /\ last' = [op |-> "create",
                              status |-> IF outcome = "written" THEN 201 ELSE 500,
                              args |-> [content_type |-> content_type, write |-> outcome],
                              result |-> IF outcome = "written" THEN <<record>> ELSE <<>>]
                  /\ UNCHANGED deleted

\* POST /candidates/
create_candidate(form, content_type, outcome) ==
    create_with(form, content_type, outcome, Uuid4)

\* The comparison without the two lower() calls
SkillStageCaseSensitive(results, skill) ==
    IF skill # None /\ skill[1] # <<>>
    THEN LET Test(c) == \E k \in 1..Len(c.skill_set) :
                           Contains(c.skill_set[k], skill[1])
         IN  SelectSeq(results, Test)
    ELSE results

\* if skill: keep the records one of whose skills contains it, case-insensitively
\* (line 114-115); None and the empty text are both falsy
SkillStage(results, skill) ==
    IF skill # None /\ skill[1] # <<>>
    THEN LET Test(c) == \E k \in 1..Len(c.skill_set) :
                           Contains(Lower(c.skill_set[k]), Lower(skill[1]))
         IN  SelectSeq(results, Test)
    ELSE results

\* "if min_experience:" in place of "is not None": 0 taken for no filter
ExperienceStageTruthy(results, min_experience) ==
    IF min_experience # None /\ min_experience[1] # 0
    THEN LET Test(c) == c.years_of_experience >= min_experience[1]
         IN  SelectSeq(results, Test)
    ELSE results

\* if min_experience is not None: keep years_of_experience >= min_experience
ExperienceStage(results, min_experience) ==
    IF min_experience # None
    THEN LET Test(c) == c.years_of_experience >= min_experience[1]
         IN  SelectSeq(results, Test)
    ELSE results

\* if graduation_year is not None: keep graduation_year == graduation_year
YearStage(results, graduation_year) ==
    IF graduation_year # None
    THEN LET Test(c) == c.graduation_year = graduation_year[1]
         IN  SelectSeq(results, Test)
    ELSE results

\* the value list_candidates returns (lines 112-123)
ListResults(db, skill, min_experience, graduation_year) ==
    YearStage(ExperienceStage(SkillStage(db, skill), min_experience), graduation_year)

\* The filtered list written back, as CANDIDATES_DB[:] = results
DbFilteredInPlace(db, results) == results

\* The collection after list_candidates: each stage binds results to a new
\* list (lines 115, 118, 121), CANDIDATES_DB itself is only read
DbAfterList(db, results) == db

\* GET /candidates/
list_candidates(skill, min_experience, graduation_year) ==
    LET results == ListResults(CANDIDATES_DB, skill, min_experience, graduation_year)
    IN  /\ before' = Arrival /\ UNCHANGED inflight
        /\ last' = [op |-> "list", status |-> 200,
                    args |-> [skill |-> skill, min_experience |-> min_experience,
                              graduation_year |-> graduation_year],
                    result |-> results]
        /\ CANDIDATES_DB' = DbAfterList(CANDIDATES_DB, results)
        /\ UNCHANGED <<files, issued, created, deleted>>

\* GET /candidates/{candidate_id}
get_candidate(candidate_id) ==
    LET candidate == find_candidate_by_id(candidate_id)
    IN  /\ before' = Arrival /\ UNCHANGED inflight
        /\ last' = [op |-> "get",
                    status |-> IF candidate = None THEN 404 ELSE 200,
                    args |-> [candidate_id |-> candidate_id],
                    result |-> candidate]
        /\ UNCHANGED <<CANDIDATES_DB, files, issued, created, deleted>>

\* The try block without its except clause
OSErrorPropagates == FALSE

\* except OSError: pass (lines 146-147): the handler goes on after a failed removal
OSErrorSwallowed == TRUE

\* The files left after the removal attempt of lines 143-147
FilesAfterRemove(fs, path, outcome) ==
    IF path \in fs /\ outcome = "removed" THEN fs \ {path} ELSE fs

\* CANDIDATES_DB.pop() in place of CANDIDATES_DB.remove(candidate)
DbAfterPop(db, candidate) == SubSeq(db, 1, Len(db) - 1)

\* The removed record's place taken by the last record of the list
DbAfterSwapRemove(db, candidate) ==
    LET k == CHOOSE i \in 1..Len(db) : db[i] = candidate
    IN  IF k = Len(db) THEN SubSeq(db, 1, Len(db) - 1)
        ELSE SubSeq(db, 1, k - 1) \o <<db[Len(db)]>> \o SubSeq(db, k + 1, Len(db) - 1)

\* The collection after line 149
DbAfterDelete(db, candidate) == ListRemove(db, candidate)

\* DELETE /candidates/{candidate_id}
delete_candidate(candidate_id, outcome) ==
    LET candidate == find_candidate_by_id(candidate_id)
    IN  /\ before' = Arrival /\ UNCHANGED inflight
        /\ IF candidate = None
           THEN /\ last' = [op |-> "delete", status |-> 404,
                            args |-> [candidate_id |-> candidate_id, removal |-> "none"],
                            result |-> <<>>]
                /\ UNCHANGED <<CANDIDATES_DB, files, issued, created, deleted>>
           ELSE LET path == candidate[1].resume_file_path
                IN  IF path \in files /\ outcome = "oserror" /\ ~OSErrorSwallowed
                    THEN /\ last' = [op |-> "delete", status |-> 500,
                                     args |-> [candidate_id |-> candidate_id,
                                               removal |-> outcome],
                                     result |-> <<candidate[1]>>]
                         /\ UNCHANGED <<CANDIDATES_DB, files, issued, created, deleted>>
                    ELSE /\ files' = FilesAfterRemove(files, path, outcome)
                         /\ CANDIDATES_DB' = DbAfterDelete(CANDIDATES_DB, candidate[1])
                         /\ deleted' = deleted \cup {candidate_id}
                         /\ last' = [op |-> "delete", status |-> 204,
                                     args |-> [candidate_id |-> candidate_id,
                                               removal |-> IF path \in files THEN outcome
                                                           ELSE "missing"],
                                     result |-> <<candidate[1]>>]
                         /\ UNCHANGED <<issued, created>>

Next ==
    \/ \E form \in Forms, content_type \in ContentTypes, outcome \in WriteOutcomes :
          create_candidate(form, content_type, outcome)
    \/ \E skill \in SkillFilters, min_experience \in ExperienceFilters,
          graduation_year \in YearFilters :
          list_candidates(skill, min_experience, graduation_year)
    \/ \E candidate_id \in RequestIds : get_candidate(candidate_id)
    \/ \E candidate_id \in RequestIds, outcome \in RemoveOutcomes :
          delete_candidate(candidate_id, outcome)

Spec == Init /\ [][Next]_vars

----------------------------------------------------------------------------
(* The same handlers when uuid.uuid4() is any random value: it may return   *)
(* a value it has returned before.                                          *)

\* uuid.uuid4() without the assumption of Spec: an earlier value or a new one
Uuid4AnyValue ==
    issued \cup (IF Cardinality(issued) < MaxCollisionRecords THEN Uuid4 ELSE {})

\* the forms of these runs: one filename with an extension, one without
CollisionForms == {form \in Forms : form.graduation_year = 2020}

create_candidate_any_uuid(form, content_type, outcome) ==
    /\ Len(CANDIDATES_DB) < MaxCollisionRecords
    /\ create_with(form, content_type, outcome, Uuid4AnyValue)

NextCollision ==
    \/ \E form \in CollisionForms, content_type \in ContentTypes,
          outcome \in WriteOutcomes :
          create_candidate_any_uuid(form, content_type, outcome)
    \/ list_candidates(None, None, None)
    \/ \E candidate_id \in RequestIds : get_candidate(candidate_id)
    \/ \E candidate_id \in RequestIds, outcome \in RemoveOutcomes :
          delete_candidate(candidate_id, outcome)

SpecCollision == Init /\ [][NextCollision]_vars

----------------------------------------------------------------------------
(* The skill normalisation of create_candidate (line 88) on its own, over    *)
(* every short raw text and one longer example                              *)

SkillAlphabet == {"a", "b", " ", ","}

ExampleSkillSet ==
    <<" ", "P", "y", "t", "h", "o", "n", ",", " ", "C", "+", "+", " ", ",",
      " ", "S", "Q", "L", ",">>

RawSkillSets ==
    UNION {[1..n -> SkillAlphabet] : n \in 0..MaxRawLen} \cup {ExampleSkillSet}

InitSkills ==
    /\ inflight = [t \in Threads |-> Idle]
    /\ CANDIDATES_DB = <<>>
    /\ files = {}
    /\ issued = {}
    /\ created = <<>>
    /\ deleted = {}
    /\ before = [CANDIDATES_DB |-> <<>>, files |-> {}, created |-> <<>>]
    /\ \E raw \in RawSkillSets :
          last = [op |-> "form", status |-> 0, args |-> [skill_set |-> raw],
                  result |-> <<>>]

\* the skill_set that create_candidate stores for the form's raw text
process_skills ==
    /\ last.op = "form"
    /\ last' = [op |-> "skill_set", status |-> 0, args |-> last.args,
                result |-> candidate_data(UuidStr(1),
                              [ full_name |-> "Ann", graduation_year |-> 2020,
                                years_of_experience |-> 30,
                                skill_set |-> last.args.skill_set,
                                filename |-> <<"c", "v">> ]).skill_set]
    /\ UNCHANGED <<CANDIDATES_DB, files, issued, created, deleted, before, inflight>>

NextSkills == process_skills

SpecSkills == InitSkills /\ [][NextSkills]_vars

----------------------------------------------------------------------------
(* Requests served at the same time.  main.py holds no lock: the def        *)
(* handlers run on the threads of the pool and the async handler on the     *)
(* event loop, and the interpreter may switch threads between any two       *)
(* bytecodes.  A step below is one iteration of a loop over CANDIDATES_DB,  *)
(* one file operation or one list operation.  A list request carries at     *)
(* least one effective filter, so that the loop over CANDIDATES_DB is the   *)
(* comprehension of lines 115-121.  The creates of these runs are accepted  *)
(* and written in full, and their file removals succeed; rejected and       *)
(* failing requests are the subject of Spec.                                *)

ConcurrentIds == {UuidStr(n) : n \in 1..MaxConcurrentIds}

ConcurrentFilters ==
    { [skill |-> None, min_experience |-> Some(0), graduation_year |-> None] }

\* a request as a worker picks it up: nothing read yet; seen collects the
\* values CANDIDATES_DB takes while a read request is served
Request(op, args) ==
    [ pc |-> IF op = "list" THEN "scan" ELSE "find", op |-> op, args |-> args,
      i |-> 0, results |-> <<>>, candidate |-> None, bare |-> {},
      seen |-> IF op = "delete" THEN {} ELSE {CANDIDATES_DB} ]

\* the requests in flight after CANDIDATES_DB has become db
Noted(fl, db) ==
    [t \in Threads |-> IF t \in Workers /\ fl[t].pc \in {"scan", "find"}
                                        /\ fl[t].op # "delete"
                       THEN [fl[t] EXCEPT !.seen = @ \cup {db}]
                       ELSE fl[t]]

\* the response of worker t; bare holds the returned records whose file was
\* absent when they were read from CANDIDATES_DB
Answer(t, status, result, bare) ==
    last' = [op |-> inflight[t].op, status |-> status, args |-> inflight[t].args,
             result |-> result, seen |-> inflight[t].seen, bare |-> bare]

\* create_candidate up to the end of the try block (lines 60-85), for an
\* allowed content type and a write that succeeds
begin_create(form) ==
    /\ inflight["loop"].pc = "idle"
    /\ \E candidate_id \in Uuid4 \cap ConcurrentIds :
          /\ issued' = issued \cup {candidate_id}
          /\ files' = files \cup {file_path(candidate_id, form.filename)}
          /\ inflight' = [inflight EXCEPT !["loop"] =
                            [pc |-> "append",
                             record |-> candidate_data(candidate_id, form)]]
    /\ UNCHANGED <<CANDIDATES_DB, created, deleted, last, before>>

\* CANDIDATES_DB.append(candidate_data) and the response (lines 103-104)
finish_create ==
    /\ inflight["loop"].pc = "append"
    /\ LET record == inflight["loop"].record
       IN  /\ CANDIDATES_DB' = InsertAfterWrite(CANDIDATES_DB, record, "written")
           /\ created' = (record.id :> record) @@ created
           /\ last' = [op |-> "create", status |-> 201,
                       args |-> [content_type |-> "application/pdf",
                                 write |-> "written"],
                       result |-> <<record>>]
           /\ inflight' = Noted([inflight EXCEPT !["loop"] = Idle], CANDIDATES_DB')
           /\ UNCHANGED <<files, issued, deleted, before>>

\* a worker picks up GET /candidates/
start_list(t, filters) ==
    /\ inflight[t].pc = "idle"
    /\ inflight' = [inflight EXCEPT ![t] = Request("list", filters)]
    /\ UNCHANGED <<CANDIDATES_DB, files, issued, created, deleted, last, before>>

\* a worker picks up GET /candidates/{candidate_id}
start_get(t, candidate_id) ==
    /\ inflight[t].pc = "idle"
    /\ inflight' = [inflight EXCEPT ![t] = Request("get", [candidate_id |-> candidate_id])]
    /\ UNCHANGED <<CANDIDATES_DB, files, issued, created, deleted, last, before>>

\* a worker picks up DELETE /candidates/{candidate_id}
start_delete(t, candidate_id) ==
    /\ inflight[t].pc = "idle"
    /\ inflight' = [inflight EXCEPT ![t] =
                      Request("delete", [candidate_id |-> candidate_id,
                                         removal |-> "none"])]
    /\ UNCHANGED <<CANDIDATES_DB, files, issued, created, deleted, last, before>>

\* one iteration of the for loop of find_candidate_by_id (lines 42-45): the
\* list iterator reads the element at its index from the list as it is now
find_step(t) ==
    LET r == inflight[t]
    IN  /\ r.pc = "find"
        /\ UNCHANGED <<CANDIDATES_DB, files, issued, created, deleted, before>>
        /\ IF r.i >= Len(CANDIDATES_DB)
           THEN \* return None: both callers answer 404
                /\ Answer(t, 404, None, {})
                /\ inflight' = [inflight EXCEPT ![t] = Idle]
           ELSE LET candidate == CANDIDATES_DB[r.i + 1]
                IN  IF candidate.id # r.args.candidate_id
                    THEN /\ inflight' = [inflight EXCEPT ![t].i = r.i + 1]
                         /\ UNCHANGED last
                    ELSE IF r.op = "get"
                    THEN /\ Answer(t, 200, Some(candidate),
                                   IF candidate.resume_file_path \in files
                                   THEN {} ELSE {candidate})
                         /\ inflight' = [inflight EXCEPT ![t] = Idle]
                    ELSE /\ inflight' = [inflight EXCEPT
                                           ![t].pc = "remove_file",
                                           ![t].candidate = Some(candidate)]
                         /\ UNCHANGED last

\* lines 143-147 of delete_candidate, os.remove succeeding
remove_file_step(t) ==
    LET r    == inflight[t]
        path == r.candidate[1].resume_file_path
    IN  /\ r.pc = "remove_file"
        /\ files' = FilesAfterRemove(files, path, "removed")
        /\ inflight' = [inflight EXCEPT
                          ![t].pc = "remove_record",
                          ![t].args.removal = IF path \in files THEN "removed"
                                              ELSE "missing"]
        /\ UNCHANGED <<CANDIDATES_DB, issued, created, deleted, last, before>>

\* CANDIDATES_DB.remove(candidate), line 149: list.remove raises ValueError
\* when no element equals candidate, and the request ends with status 500
remove_record_step(t) ==
    LET r         == inflight[t]
        candidate == r.candidate[1]
    IN  /\ r.pc = "remove_record"
        /\ UNCHANGED <<files, issued, created, before>>
        /\ IF \E k \in 1..Len(CANDIDATES_DB) : CANDIDATES_DB[k] = candidate
           THEN /\ CANDIDATES_DB' = DbAfterDelete(CANDIDATES_DB, candidate)
                /\ deleted' = deleted \cup {candidate.id}
                /\ last' = [op |-> "delete", status |-> 204, args |-> r.args,
                            result |-> <<candidate>>,
                            repeated |-> candidate.id \in deleted]
                /\ inflight' = Noted([inflight EXCEPT ![t] = Idle], CANDIDATES_DB')
           ELSE /\ last' = [op |-> "delete", status |-> 500, args |-> r.args,
                            result |-> <<candidate>>, repeated |-> FALSE]
                /\ inflight' = [inflight EXCEPT ![t] = Idle]
                /\ UNCHANGED <<CANDIDATES_DB, deleted>>

\* one iteration of the first comprehension that list_candidates runs: it
\* iterates CANDIDATES_DB itself (results = CANDIDATES_DB, line 112); after
\* the last element the other stages run on the new list
scan_step(t) ==
    LET r == inflight[t]
    IN  /\ r.pc = "scan"
        /\ UNCHANGED <<CANDIDATES_DB, files, issued, created, deleted, before>>
        /\ IF r.i >= Len(CANDIDATES_DB)
           THEN LET results == ListResults(r.results, r.args.skill,
                                           r.args.min_experience,
                                           r.args.graduation_year)
                IN  /\ Answer(t, 200, results,
                              {c \in r.bare : \E k \in 1..Len(results) : results[k] = c})
                    /\ inflight' = [inflight EXCEPT ![t] = Idle]
           ELSE LET c == CANDIDATES_DB[r.i + 1]
                IN  /\ inflight' = [inflight EXCEPT
                          ![t].i = r.i + 1,
                          ![t].results = Append(r.results, c),
                          ![t].bare = IF c.resume_file_path \in files
                                      THEN r.bare ELSE r.bare \cup {c}]
                    /\ UNCHANGED last

NextConcurrent ==
    \/ \E form \in CollisionForms : begin_create(form)
    \/ finish_create
    \/ \E t \in Workers, filters \in ConcurrentFilters : start_list(t, filters)
    \/ \E t \in Workers, candidate_id \in ConcurrentIds : start_get(t, candidate_id)
    \/ \E t \in Workers, candidate_id \in ConcurrentIds : start_delete(t, candidate_id)
    \/ \E t \in Workers : find_step(t)
    \/ \E t \in Workers : remove_file_step(t)
    \/ \E t \in Workers : remove_record_step(t)
    \/ \E t \in Workers : scan_step(t)

SpecConcurrent == Init /\ [][NextConcurrent]_vars

----------------------------------------------------------------------------
(* Properties.  Each speaks of the request served last: last is the request *)
(* and its response, before is the state it arrived in, and the variables   *)
(* are the state it left.                                                   *)

IdInDb(db, candidate_id) == \E i \in 1..Len(db) : db[i].id = candidate_id

\* the list without its k-th element
Without(list, k) == SubSeq(list, 1, k - 1) \o SubSeq(list, k + 1, Len(list))

\* C1: between requests every record of CANDIDATES_DB has its attachment file
\* in the store, at the record's resume_file_path.
C1_EveryRecordHasFile ==
    \A i \in 1..Len(CANDIDATES_DB) : CANDIDATES_DB[i].resume_file_path \in files

\* a delete whose file removal failed has been served, a failed write has left
\* a file behind, and a record is still in the collection
C1_Witness ==
    /\ last.op = "delete" /\ last.status = 204 /\ last.args.removal = "oserror"
    /\ Len(CANDIDATES_DB) >= 1
    /\ Cardinality(files) > Len(CANDIDATES_DB) + 1

\* C2: a create with a content type outside the allowed set is answered 400 and
\* leaves CANDIDATES_DB and the set of files as they were.
C2_RejectedCreateChangesNothing ==
    (last.op = "create" /\ last.args.content_type \notin allowed_content_types)
    => /\ last.status = 400
       /\ CANDIDATES_DB = before.CANDIDATES_DB
       /\ files = before.files

\* a create has been rejected with records and files present
C2_Witness ==
    /\ last.op = "create" /\ last.status = 400
    /\ last.args.content_type \notin allowed_content_types
    /\ CANDIDATES_DB # <<>> /\ files # {}

\* C3: a create whose write fails is answered 500 and leaves CANDIDATES_DB
\* unchanged; a create changes CANDIDATES_DB only by appending the record it
\* returns, after a write that succeeded and left the record's file in place.
C3_InsertOnlyAfterWrite ==
    last.op = "create"
    => /\ last.args.write \in {"open_fails", "copy_fails"}
          => last.status = 500 /\ CANDIDATES_DB = before.CANDIDATES_DB
       /\ CANDIDATES_DB # before.CANDIDATES_DB
          => /\ last.args.write = "written" /\ last.status = 201
             /\ CANDIDATES_DB = Append(before.CANDIDATES_DB, last.result[1])
             /\ last.result[1].resume_file_path \in files

\* a write has failed part-way with records in the collection
C3_Witness ==
    /\ last.op = "create" /\ last.status = 500 /\ last.args.write = "copy_fails"
    /\ CANDIDATES_DB # <<>>
    /\ files # before.files

\* C4: a successful create returns a non-empty id that no earlier create of the
\* run returned, and no two records of CANDIDATES_DB share an id.
C4_IdsUnique ==
    /\ \A i, j \in 1..Len(CANDIDATES_DB) :
          CANDIDATES_DB[i].id = CANDIDATES_DB[j].id => i = j
    /\ (last.op = "create" /\ last.status = 201)
          => /\ last.result[1].id # <<>>
             /\ last.result[1].id \notin DOMAIN before.created

\* a create has succeeded after an earlier record was deleted, with another
\* record still in the collection
C4_Witness ==
    /\ last.op = "create" /\ last.status = 201
    /\ deleted # {}
    /\ Len(CANDIDATES_DB) >= 2

\* C5: as long as its id has not been deleted, find_candidate_by_id gives the
\* record exactly as create returned it, and get_candidate answers with it.
C5_GetReturnsCreated ==
    /\ \A id \in (DOMAIN created) \ deleted :
          find_candidate_by_id(id) = Some(created[id])
    /\ (last.op = "get" /\ last.status = 200)
          => /\ last.args.candidate_id \in (DOMAIN created) \ deleted
             /\ last.result = Some(created[last.args.candidate_id])

\* a record is fetched after a later create and after the delete of another id
C5_Witness ==
    /\ last.op = "get" /\ last.status = 200
    /\ deleted # {}
    /\ Len(CANDIDATES_DB) >= 2
    /\ last.result[1] = CANDIDATES_DB[1]

\* C6: get and delete of an id that matches no record are answered 404 and
\* leave CANDIDATES_DB and the set of files as they were.
C6_UnknownIdNotFound ==
    (last.op \in {"get", "delete"}
        /\ ~IdInDb(before.CANDIDATES_DB, last.args.candidate_id))
    => /\ last.status = 404
       /\ CANDIDATES_DB = before.CANDIDATES_DB
       /\ files = before.files

\* the delete of an id that was deleted before, with records and files present
C6_Witness ==
    /\ last.op = "delete" /\ last.status = 404
    /\ CANDIDATES_DB # <<>> /\ files # {}
    /\ last.args.candidate_id \in deleted

\* C7: the delete of an existing id removes exactly the record with that id, the
\* other records staying as they are and in their order; when the file removal
\* succeeds, exactly that record's file leaves the store; a deleted id is in no
\* later listing and get answers 404 for it.
C7_DeleteRemovesExactlyOne ==
    /\ (last.op = "delete" /\ IdInDb(before.CANDIDATES_DB, last.args.candidate_id))
          => /\ last.status = 204
             /\ \E k \in 1..Len(before.CANDIDATES_DB) :
                   /\ before.CANDIDATES_DB[k].id = last.args.candidate_id
                   /\ CANDIDATES_DB = Without(before.CANDIDATES_DB, k)
                   /\ last.args.removal = "removed"
                         => /\ before.CANDIDATES_DB[k].resume_file_path \in before.files
                            /\ files = before.files
                                          \ {before.CANDIDATES_DB[k].resume_file_path}
    /\ \A id \in deleted : ~IdInDb(CANDIDATES_DB, id)
    /\ last.op = "list" => \A id \in deleted : ~IdInDb(last.result, id)
    /\ (last.op = "get" /\ last.args.candidate_id \in deleted) => last.status = 404

\* the middle record of three has been deleted together with its file
C7_Witness ==
    /\ last.op = "delete" /\ last.status = 204 /\ last.args.removal = "removed"
    /\ Len(before.CANDIDATES_DB) = 3
    /\ last.args.candidate_id = before.CANDIDATES_DB[2].id
    /\ Cardinality(files) = 2

\* C8: once delete has found the record, it answers 204 and the record is gone,
\* whether the file removal succeeds, fails or finds no file; when the removal
\* fails the file stays in the store, with no record for it.
C8_DeleteBestEffort ==
    (last.op = "delete" /\ IdInDb(before.CANDIDATES_DB, last.args.candidate_id))
    => /\ last.status = 204
       /\ last.args.removal \in {"removed", "oserror", "missing"}
       /\ Len(CANDIDATES_DB) = Len(before.CANDIDATES_DB) - 1
       /\ ~IdInDb(CANDIDATES_DB, last.args.candidate_id)
       /\ last.args.removal = "oserror"
             => /\ files = before.files
                /\ last.result[1].resume_file_path \in files
                /\ \A i \in 1..Len(CANDIDATES_DB) :
                      CANDIDATES_DB[i].resume_file_path
                         # last.result[1].resume_file_path

\* a file removal has failed: the record is gone and its file is an orphan
C8_Witness ==
    /\ last.op = "delete" /\ last.status = 204 /\ last.args.removal = "oserror"
    /\ last.result[1].resume_file_path \in files
    /\ IdInDb(before.CANDIDATES_DB, last.args.candidate_id)
    /\ ~IdInDb(CANDIDATES_DB, last.args.candidate_id)

\* one entry of the skill set contains the text, letter case aside
AnySkillContains(c, text) ==
    \E k \in 1..Len(c.skill_set) : Contains(Lower(c.skill_set[k]), Lower(text))

\* the record passes the two numeric filters, each a constraint when supplied
PassesNumeric(c, min_experience, graduation_year) ==
    /\ min_experience # None => c.years_of_experience >= min_experience[1]
    /\ graduation_year # None => c.graduation_year = graduation_year[1]

\* C9: a listing is the sub-sequence of CANDIDATES_DB, in its order, of the
\* records that pass every supplied filter: years_of_experience >= min_experience
\* (equality passes), graduation_year equal, a supplied 0 being a constraint;
\* the skill filter constrains when it is a non-empty text.
C9_ListIsFilteredSubsequence ==
    last.op = "list"
    => LET Pass(c) ==
              /\ (last.args.skill # None /\ last.args.skill[1] # <<>>)
                    => AnySkillContains(c, last.args.skill[1])
              /\ PassesNumeric(c, last.args.min_experience, last.args.graduation_year)
       IN  last.result = SelectSeq(CANDIDATES_DB, Pass)

\* min_experience = 0 together with a year has kept a record of negative
\* experience out and let two records through, one of them on the boundary
C9_Witness ==
    /\ last.op = "list"
    /\ last.args.min_experience = Some(0)
    /\ last.args.graduation_year # None
    /\ Len(CANDIDATES_DB) = 3
    /\ Len(last.result) = 2
    /\ \E i \in 1..3 : CANDIDATES_DB[i].years_of_experience < 0
    /\ \E i \in 1..3 : CANDIDATES_DB[i].years_of_experience = 30

\* C10 as stated: whenever a skill value is supplied, the empty text included, a
\* record that passes the other filters is returned iff one of its skills
\* contains the value, letter case aside.
C10_AnySuppliedSkillFilters ==
    (last.op = "list" /\ last.args.skill # None)
    => \A i \in 1..Len(CANDIDATES_DB) :
          PassesNumeric(CANDIDATES_DB[i], last.args.min_experience,
                        last.args.graduation_year)
          => ((\E k \in 1..Len(last.result) : last.result[k] = CANDIDATES_DB[i])
                <=> AnySkillContains(CANDIDATES_DB[i], last.args.skill[1]))

\* C10, amended: when a non-empty skill value is supplied, a record that passes
\* the other filters is returned iff one of its skills contains the value, letter
\* case aside, so a record with an empty skill_set is not returned; an empty
\* skill value filters nothing, like an absent one.
C10_NonEmptySkillFilters ==
    (last.op = "list" /\ last.args.skill # None)
    => \A i \in 1..Len(CANDIDATES_DB) :
          PassesNumeric(CANDIDATES_DB[i], last.args.min_experience,
                        last.args.graduation_year)
          => ((\E k \in 1..Len(last.result) : last.result[k] = CANDIDATES_DB[i])
                <=> (last.args.skill[1] = <<>>
                        \/ AnySkillContains(CANDIDATES_DB[i], last.args.skill[1])))

\* "sql" has selected the record with the skill "SQL" and left out a record
\* with other skills and a record with no skill
C10_Witness ==
    /\ last.op = "list" /\ last.args.skill = Some(<<"s", "q", "l">>)
    /\ Len(last.result) = 1
    /\ <<"S", "Q", "L">> \in {last.result[1].skill_set[k] :
                                 k \in 1..Len(last.result[1].skill_set)}
    /\ \E i \in 1..Len(CANDIDATES_DB) : CANDIDATES_DB[i].skill_set = <<>>
    /\ \E i \in 1..Len(CANDIDATES_DB) : CANDIDATES_DB[i].skill_set = <<<<"P", "y">>>>

\* the place of a record in the order of creation: the k-th id handed out is
\* UuidStr(k)
CreationRank(c) == c.id[2]

\* C11: a listing without filters is CANDIDATES_DB itself: every record of the
\* collection once, in the order of creation, whatever was deleted before.
C11_UnfilteredListInCreationOrder ==
    /\ \A i, j \in 1..Len(CANDIDATES_DB) :
          i < j => CreationRank(CANDIDATES_DB[i]) < CreationRank(CANDIDATES_DB[j])
    /\ \A id \in (DOMAIN created) \ deleted : IdInDb(CANDIDATES_DB, id)
    /\ (last.op = "list" /\ last.args.skill = None
           /\ last.args.min_experience = None /\ last.args.graduation_year = None)
          => /\ last.result = CANDIDATES_DB
             /\ Len(last.result) = Cardinality((DOMAIN created) \ deleted)

\* all three records were created, the middle one deleted, and the unfiltered
\* listing shows the other two
C11_Witness ==
    /\ last.op = "list" /\ last.args.skill = None
    /\ last.args.min_experience = None /\ last.args.graduation_year = None
    /\ Len(last.result) = 2
    /\ deleted = {UuidStr(2)}

\* C13: list_candidates and get_candidate leave CANDIDATES_DB and the set of
\* files as they found them.
C13_ReadsChangeNothing ==
    last.op \in {"list", "get"}
    => /\ CANDIDATES_DB = before.CANDIDATES_DB
       /\ files = before.files

\* a filter has left records out of a listing, and they are still stored
C13_Witness ==
    /\ last.op = "list"
    /\ Len(last.result) < Len(CANDIDATES_DB)
    /\ Len(CANDIDATES_DB) >= 2
    /\ files # {}

\* the positions that bound the pieces of a comma-separated text: its commas
\* and the two ends
Bounds(raw) == {0, Len(raw) + 1} \cup {i \in 1..Len(raw) : raw[i] = ","}

\* the n-th of these positions, counted from the left
NthBound(raw, n) ==
    CHOOSE b \in Bounds(raw) : Cardinality({x \in Bounds(raw) : x < b}) = n - 1

\* a text without the whitespace at its two ends
Trimmed(p) ==
    LET solid == {i \in 1..Len(p) : p[i] \notin Whitespace}
    IN  IF solid = {} THEN <<>>
        ELSE SubSeq(p, CHOOSE i \in solid : \A j \in solid : i <= j,
                       CHOOSE i \in solid : \A j \in solid : i >= j)

\* the pieces between the commas, trimmed, the empty ones dropped, in order
NormalisedSkills(raw) ==
    LET n      == Cardinality(Bounds(raw)) - 1
        pieces == [k \in 1..n |->
                     Trimmed(SubSeq(raw, NthBound(raw, k) + 1, NthBound(raw, k + 1) - 1))]
        Kept(t) == t # <<>>
    IN  SelectSeq(pieces, Kept)

\* no token is empty or made of whitespace only
SolidTokens(skill_set) ==
    \A k \in 1..Len(skill_set) :
       \E i \in 1..Len(skill_set[k]) : skill_set[k][i] \notin Whitespace

\* C12: the stored skill_set is the raw text split on commas, each piece
\* trimmed, the empty pieces dropped, order and duplicates kept; no stored
\* skill_set holds an empty or whitespace-only token.
C12_SkillSetNormalised ==
    /\ last.op = "skill_set"
          => /\ last.result = NormalisedSkills(last.args.skill_set)
             /\ SolidTokens(last.result)
    /\ \A i \in 1..Len(CANDIDATES_DB) : SolidTokens(CANDIDATES_DB[i].skill_set)

\* " Python, C++ , SQL," has been stored as Python, C++, SQL
C12_Witness ==
    /\ last.op = "skill_set"
    /\ last.args.skill_set = ExampleSkillSet
    /\ last.result = << <<"P", "y", "t", "h", "o", "n">>, <<"C", "+", "+">>,
                        <<"S", "Q", "L">> >>

\* C14: a create whose generated id is the id of a record already in
\* CANDIDATES_DB does not succeed and leaves the collection unchanged: no
\* second record with that id is appended.
C14_DuplicateIdentityRejected ==
    (last.op = "create" /\ last.result # <<>>
        /\ IdInDb(before.CANDIDATES_DB, last.result[1].id))
    => /\ last.status # 201
       /\ CANDIDATES_DB = before.CANDIDATES_DB

\* the records of db whose resume_file_path is path
RecordsAt(db, path) == {i \in 1..Len(db) : db[i].resume_file_path = path}

\* C17: as long as no delete has been served, every file in the store is the
\* resume_file_path of exactly one record of CANDIDATES_DB, whatever creates
\* (successful, rejected, failed while writing) have been served.
C17_NoOrphanAfterCreates ==
    deleted = {} => \A path \in files : Cardinality(RecordsAt(CANDIDATES_DB, path)) = 1

\* the filename the record's upload came with (the forms differ in full_name)
OriginalFilename(c) == (CHOOSE form \in Forms : form.full_name = c.full_name).filename

\* the last n characters of a text
Suffix(text, n) == SubSeq(text, Len(text) - n + 1, Len(text))

\* C18: a record's resume_file_path is UPLOAD_DIRECTORY joined with its id
\* followed by the extension of the original filename, ".bin" when there is
\* none; two distinct records never share a path; the file of a successful
\* create is at a path where no file was and that no record had; a delete
\* removes no file but the deleted record's, so every record that stays keeps
\* its file.
C18_PathFromIdAndExtension ==
    /\ \A i \in 1..Len(CANDIDATES_DB) :
          LET c == CANDIDATES_DB[i]
          IN  /\ c.resume_file_path
                    = <<UPLOAD_DIRECTORY, "/">> \o c.id
                         \o file_extension(OriginalFilename(c))
              /\ Suffix(c.resume_file_path, 4)
                    = IF OriginalFilename(c) = <<"c", "v", ".", "p", "d", "f">>
                      THEN <<".", "p", "d", "f">> ELSE <<".", "b", "i", "n">>
    /\ \A i, j \in 1..Len(CANDIDATES_DB) :
          i # j => CANDIDATES_DB[i].resume_file_path # CANDIDATES_DB[j].resume_file_path
    /\ (last.op = "create" /\ last.status = 201)
          => /\ last.result[1].resume_file_path \notin before.files
             /\ RecordsAt(before.CANDIDATES_DB, last.result[1].resume_file_path) = {}
    /\ last.op = "create"
          => \A path \in files \ before.files : RecordsAt(before.CANDIDATES_DB, path) = {}
    /\ (last.op = "delete" /\ last.status = 204)
          => /\ before.files \ files \subseteq {last.result[1].resume_file_path}
             /\ \A i \in 1..Len(CANDIDATES_DB) :
                   CANDIDATES_DB[i].resume_file_path \in files

\* three records, with and without an extension in the filename, have been
\* created and the one without has been deleted together with its file,
\* the other two keeping theirs
C18_Witness ==
    /\ last.op = "delete" /\ last.status = 204 /\ last.args.removal = "removed"
    /\ Len(before.CANDIDATES_DB) = 3
    /\ Suffix(last.result[1].resume_file_path, 4) = <<".", "b", "i", "n">>
    /\ last.result[1].resume_file_path \notin files
    /\ Len(CANDIDATES_DB) = 2
    /\ \E i \in 1..2 : Suffix(CANDIDATES_DB[i].resume_file_path, 4) = <<".", "p", "d", "f">>
    /\ \E i \in 1..2 : OriginalFilename(CANDIDATES_DB[i]) = <<".", "c", "v">>

\* C15: deletes that run at the same time behave as if one ran after the
\* other: a delete is answered 204 or 404, never with another error, and no
\* id is answered 204 twice.
C15_ConcurrentDeletesSerialized ==
    last.op = "delete" => /\ last.status \in {204, 404}
                          /\ last.status = 204 => ~last.repeated

\* the first record of db with that id, None when there is none
FindIn(db, candidate_id) ==
    LET hits == {i \in 1..Len(db) : db[i].id = candidate_id}
    IN  IF hits = {} THEN None
        ELSE Some(db[CHOOSE i \in hits : \A j \in hits : i <= j])

\* the record is an element of the list
InList(list, c) == \E k \in 1..Len(list) : list[k] = c

\* C16: a list or get served while the collection is being mutated returns
\* what it would return on one of the values CANDIDATES_DB had while the
\* request was served, and a listing leaves out no matching record that was
\* in the collection all that time.
C16_ReadsSeeBeforeOrAfter ==
    /\ last.op = "list"
          => /\ \E db \in last.seen :
                   last.result = ListResults(db, last.args.skill,
                                             last.args.min_experience,
                                             last.args.graduation_year)
             /\ \A db0 \in last.seen : \A k \in 1..Len(db0) :
                   ( /\ \A db \in last.seen : InList(db, db0[k])
                     /\ ListResults(<<db0[k]>>, last.args.skill,
                                    last.args.min_experience,
                                    last.args.graduation_year) # <<>> )
                   => InList(last.result, db0[k])
    /\ last.op = "get"
          => \E db \in last.seen : last.result = FindIn(db, last.args.candidate_id)

\* C19: every record that get or list returns had its file in the store at
\* the moment it was read from CANDIDATES_DB.
C19_ReadRecordsHaveFile ==
    last.op \in {"get", "list"} => last.bare = {}

====
